---- MODULE Spec2Model ----
(***************************************************************************)
(* A model of process_dataset.py: main(), annotate(), compute_gt() and     *)
(* process_overlap().  The anchors are those the preset yields (line 190); *)
(* they are fixed for a run.                                               *)
(*                                                                         *)
(* Conventions.  Anchor indices and vector columns are 0-based as in the   *)
(* source; sample.boxes and the `good` lists are sequences.  IoU scores    *)
(* are integers in tenths (0.5 is 5, 1.0 is 10).  A path is the sequence   *)
(* of its components.  A dict is a function over the set of its keys.      *)
(***************************************************************************)
EXTENDS Integers, Sequences, FiniteSets, TLC

VARIABLES
    pc,           \* position of main / compute_gt
    args,         \* the parsed command line (main, line 151)
    dataset,      \* what the data source holds on disk (input of the loaders)
    source,       \* the loaded data source (train/valid/test samples)
    anchors,      \* get_anchors_for_preset(preset): anchor index -> anchor
    name,         \* compute_gt's / annotate's `name` argument
    si,           \* position of `for sample in samples`
    vec,          \* compute_gt's target vector of the current sample
    overlaps,     \* compute_gt's overlaps, keyed by the box's position
    matches,      \* compute_gt's Match Table of the current pass
    bi,           \* position of `for box in sample.boxes`
    oi,           \* position of `for overlap in overlaps[box].good`
    last_call,    \* the last process_overlap call of the current sample
    sample_list,  \* compute_gt's sample_list
    fs_log,       \* every file written so far, in order
    dirs,         \* directories created so far
    ret,          \* main's return value: <<>> until main returns
    reported,     \* the '[!] Unable to load data source' message was printed
    exc           \* the exception raised, if any: its type, where, whether caught

vars == <<pc, args, dataset, source, anchors, name, si, vec, overlaps, matches,
          bi, oi, last_call, sample_list, fs_log, dirs, ret, reported, exc>>

-----------------------------------------------------------------------------
(* Bounds of the model.                                                    *)
MaxAnchors == 2
NumClasses == 2
MaxBoxes   == 2
MaxSamples == 2
(* The anchors plus the boxes of an image whose boxes are unconstrained.   *)
MaxSize    == 4

(* The IoU threshold handed to compute_overlap, in tenths.                 *)
Threshold == 5

(* IoU values an anchor can have with a box, in tenths.                    *)
Scores == {3, 6, 10}

-----------------------------------------------------------------------------
(* Helpers on dicts and sequences.                                         *)
EmptyDict == [k \in {} |-> 0]

DictPut(d, k, v) == [x \in (DOMAIN d) \cup {k} |-> IF x = k THEN v ELSE d[x]]

Range(s) == {s[i] : i \in DOMAIN s}

SeqsUpTo(S, n) == UNION {[1..k -> S] : k \in 0..n}

-----------------------------------------------------------------------------
(* ssdutils (not part of the sources): compute_overlap, compute_location.  *)

(* good: the (idx, score) pairs with score >= threshold, in anchor order.  *)
RECURSIVE GoodFrom(_, _, _, _)
GoodFrom(iou, i, n, threshold) ==
    IF i >= n THEN <<>>
    ELSE IF iou[i] >= threshold
         THEN <<[idx |-> i, score |-> iou[i]]>> \o GoodFrom(iou, i + 1, n, threshold)
         ELSE GoodFrom(iou, i + 1, n, threshold)

(* best: the first anchor index holding the maximum score.                 *)
BestOf(iou, n) ==
    LET i == CHOOSE k \in 0..(n - 1) :
                 /\ \A j \in 0..(n - 1) : iou[j] <= iou[k]
                 /\ \A j \in 0..(k - 1) : iou[j] < iou[k]
    IN  [idx |-> i, score |-> iou[i]]

(* box.iou stands for jaccard_overlap(box_arr, anchors_arr).               *)
compute_overlap(box, anchors_arr, threshold) ==
    LET n == Cardinality(DOMAIN anchors_arr)
    IN  [best |-> BestOf(box.iou, n),
         good |-> GoodFrom(box.iou, 0, n, threshold)]

(* The four offsets of a box against an anchor.  The geometry is kept      *)
(* abstract: the result names the box and the anchor it was computed for,  *)
(* and is never the all-zero offset of an unassigned row.                  *)
compute_location(box, anchor) == <<box.geom, anchor, box.geom, anchor>>

-----------------------------------------------------------------------------
(* Paths.                                                                  *)
strip(s) == IF s = "test " THEN "test" ELSE s

basename(filename) == filename[Len(filename)]

ResultDir(data_dir, n) == <<data_dir, "ground_truth", strip(n)>>

GtFn(data_dir, n, sample) == ResultDir(data_dir, n) \o <<basename(sample.filename), ".npy">>

SampleListFn(data_dir, n) == <<data_dir, strip(n), "-samples.pkl">>

TrainingDataFn(data_dir) == <<data_dir, "training-data.pkl">>

AnnotatedDir(data_dir, n) == <<data_dir, "annotated", strip(n)>>

AnnotatedFn(data_dir, n, sample) == AnnotatedDir(data_dir, n) \o <<basename(sample.filename)>>

-----------------------------------------------------------------------------
(* The inputs of a run.                                                    *)

AnchorsOf(n) == [i \in 0..(n - 1) |-> i + 1]

(* A box takes the first or the last class id, the columns next to column  *)
(* 0 and to the background column.                                         *)
BoxProtos(n) == [labelid : {0, NumClasses - 1}, iou : [0..(n - 1) -> Scores]]

(* The boxes of one image: box i carries its own geometry i.               *)
WithGeom(f) ==
    [i \in DOMAIN f |-> [labelid |-> f[i].labelid, geom |-> i, iou |-> f[i].iou]]

FileA  == <<"JPEGImages", "a.jpg">>
FileA2 == <<"extra", "a.jpg">>
FileB  == <<"JPEGImages", "b.jpg">>

(* One image with the given boxes: the inputs of the encoder.              *)
OneImage(bs) ==
    [train_samples |-> <<[filename |-> FileA, boxes |-> bs]>>,
     valid_samples |-> <<>>, test_samples |-> <<>>]

(* A few fixed images, for runs over several samples and splits.           *)
Pool(n) ==
    {[filename |-> FileA,  boxes |-> <<>>],
     [filename |-> FileA2, boxes |-> <<[labelid |-> 0, geom |-> 1,
                                        iou |-> [i \in 0..(n - 1) |-> IF i = 0 THEN 10 ELSE 3]]>>],
     [filename |-> FileB,  boxes |-> <<[labelid |-> NumClasses - 1, geom |-> 1,
                                        iou |-> [i \in 0..(n - 1) |-> 6]]>>]}

Splits(n) ==
    [train_samples : SeqsUpTo(Pool(n), MaxSamples),
     valid_samples : SeqsUpTo(Pool(n), MaxSamples),
     test_samples  : {<<[filename |-> FileB, boxes |-> <<>>]>>}]

(* One box whose IoU is 0.6 with anchor 1, 1.0 with anchor 2 and 0.3 with  *)
(* anchor 3, over four anchors; anchor 0 is anywhere below the threshold.  *)
ScenarioIoU == {<<s, 6, 10, 3>> : s \in {x \in Scores : x < Threshold}}

ScenarioImage ==
    {[train_samples |-> <<[filename |-> FileA,
                           boxes |-> <<[labelid |-> l, geom |-> 1,
                                        iou |-> [i \in 0..(Len(q) - 1) |-> q[i + 1]]]>>]>>,
      valid_samples |-> <<>>, test_samples |-> <<>>] :
        l \in {0, NumClasses - 1}, q \in ScenarioIoU}

ScenarioAnchors == AnchorsOf(Len(CHOOSE q \in ScenarioIoU : TRUE))

NoCall == [pass |-> "none", box |-> 0, idx |-> 0, score |-> 0,
           known |-> FALSE, prior |-> 0, wrote |-> FALSE]

NoExc == [type |-> "none", at |-> "none", caught |-> FALSE]

NoSource == [train_samples |-> <<>>, valid_samples |-> <<>>, test_samples |-> <<>>]

Init ==
    /\ pc = "load_source"
    /\ args \in [data_dir : {"pascal-voc"}, preset : {"vgg300"},
                 annotate : BOOLEAN, compute_gt : BOOLEAN]
    /\ \/ \E n \in 1..MaxAnchors : \E k \in 0..MaxBoxes :
             /\ n + k <= MaxSize
             /\ anchors = AnchorsOf(n)
             /\ \E f \in [1..k -> BoxProtos(n)] : dataset = OneImage(WithGeom(f))
       \/ /\ anchors = AnchorsOf(MaxAnchors)
          /\ dataset \in Splits(MaxAnchors)
       \/ /\ anchors = ScenarioAnchors
          /\ dataset \in ScenarioImage
    /\ source = NoSource
    /\ name = "none"
    /\ si = 0
    /\ vec = EmptyDict
    /\ overlaps = <<>>
    /\ matches = EmptyDict
    /\ bi = 0
    /\ oi = 0
    /\ last_call = NoCall
    /\ sample_list = <<>>
    /\ fs_log = <<>>
    /\ dirs = {}
    /\ ret = <<>>
    /\ reported = FALSE
    /\ exc = NoExc

-----------------------------------------------------------------------------
(* Faulty variants of process_overlap.                                     *)
(* Line 61 left out: the previous class column is not cleared.             *)
process_overlap_keep(overlap, box, anchor, m, num_classes, v) ==
    IF overlap.idx \in DOMAIN m /\ m[overlap.idx] >= overlap.score
    THEN [matches |-> m, vec |-> v]
    ELSE [matches |-> DictPut(m, overlap.idx, overlap.score),
          vec |-> [v EXCEPT ![overlap.idx] =
                     [c \in DOMAIN @ |->
                        IF c <= num_classes
                        THEN (IF c = box.labelid THEN 1 ELSE @[c])
                        ELSE compute_location(box, anchor)[c - num_classes]]]]

(* Line 57 with > for >=: an equal score overwrites.                       *)
process_overlap_gt(overlap, box, anchor, m, num_classes, v) ==
    IF overlap.idx \in DOMAIN m /\ m[overlap.idx] > overlap.score
    THEN [matches |-> m, vec |-> v]
    ELSE [matches |-> DictPut(m, overlap.idx, overlap.score),
          vec |-> [v EXCEPT ![overlap.idx] =
                     [c \in DOMAIN @ |->
                        IF c <= num_classes
                        THEN (IF c = box.labelid THEN 1 ELSE 0)
                        ELSE compute_location(box, anchor)[c - num_classes]]]]

(* Line 61 with vec[:, ...] for vec[overlap.idx, ...]: every row cleared.  *)
process_overlap_rows(overlap, box, anchor, m, num_classes, v) ==
    IF overlap.idx \in DOMAIN m /\ m[overlap.idx] >= overlap.score
    THEN [matches |-> m, vec |-> v]
    ELSE [matches |-> DictPut(m, overlap.idx, overlap.score),
          vec |-> [a \in DOMAIN v |->
                     [c \in DOMAIN v[a] |->
                        IF c <= num_classes
                        THEN (IF a = overlap.idx /\ c = box.labelid THEN 1 ELSE 0)
                        ELSE IF a = overlap.idx
                             THEN compute_location(box, anchor)[c - num_classes]
                             ELSE v[a][c]]]]

(* process_overlap: the Match Table and the vector after the call.         *)
process_overlap(overlap, box, anchor, m, num_classes, v) ==
    IF overlap.idx \in DOMAIN m /\ m[overlap.idx] >= overlap.score
    THEN [matches |-> m, vec |-> v]
    ELSE [matches |-> DictPut(m, overlap.idx, overlap.score),
          vec |-> [v EXCEPT ![overlap.idx] =
                     [c \in DOMAIN @ |->
                        IF c <= num_classes
                        THEN (IF c = box.labelid THEN 1 ELSE 0)
                        ELSE compute_location(box, anchor)[c - num_classes]]]]

(* np.zeros((vheight, vwidth)) with vheight = len(anchors) and             *)
(* vwidth = num_classes + 5.                                               *)
ZeroVec(anchs, num_classes) ==
    [a \in DOMAIN anchs |-> [c \in 0..(num_classes + 4) |-> 0]]

(* Faulty variant of lines 100-104: the 1 lands one column too far.       *)
InitBackgroundShifted(v, num_classes) ==
    [a \in DOMAIN v |->
        [c \in DOMAIN v[a] |->
            IF c = num_classes + 1 THEN 1
            ELSE IF c >= num_classes THEN 0
            ELSE v[a][c]]]

(* Lines 100-104: the background column to 1, the four offsets to 0.       *)
InitBackground(v, num_classes) ==
    [a \in DOMAIN v |->
        [c \in DOMAIN v[a] |->
            IF c = num_classes THEN 1
            ELSE IF c > num_classes THEN 0
            ELSE v[a][c]]]

(* Faulty variant of line 113: the table of the first pass is kept.       *)
ReusedMatches(old) == old

(* The Match Table a pass starts with (lines 106 and 113).                 *)
FreshMatches(old) == EmptyDict

(* What the loop of line 84 iterates over, and its current sample.         *)
SamplesOf(n) ==
    IF strip(n) = "train" THEN source.train_samples
    ELSE IF strip(n) = "valid" THEN source.valid_samples
    ELSE source.test_samples

Samples == SamplesOf(name)

Cur == Samples[si]

CallRecord(ov) ==
    [pass |-> pc, box |-> bi, idx |-> ov.idx, score |-> ov.score,
     known |-> ov.idx \in DOMAIN matches,
     prior |-> IF ov.idx \in DOMAIN matches THEN matches[ov.idx] ELSE 0,
     wrote |-> ~(ov.idx \in DOMAIN matches /\ matches[ov.idx] >= ov.score)]

(* An exception nothing catches: it leaves main.                           *)
Uncaught(type) ==
    /\ exc' = [type |-> type, at |-> pc, caught |-> FALSE]
    /\ pc' = "raised"

(* Faulty variant of line 172: RuntimeError is not caught.                 *)
CaughtTypesNarrow == {"ImportError", "AttributeError"}

(* Line 172: the exception types main catches around the loading.          *)
CaughtTypes == {"ImportError", "AttributeError", "RuntimeError"}

(* What a loader can raise: the three types main catches, or another.      *)
LoadErrors == {"ImportError", "AttributeError", "RuntimeError", "OSError"}

(* Lines 164-174: an exception raised inside the try block.                *)
LoadRaises(type) ==
    IF type \in CaughtTypes
    THEN /\ exc' = [type |-> type, at |-> pc, caught |-> TRUE]
         /\ reported' = TRUE
         /\ ret' = <<1>>
         /\ pc' = "exit"
    ELSE /\ Uncaught(type)
         /\ UNCHANGED <<reported, ret>>

gtvars == <<vec, overlaps, matches, bi, oi, last_call, sample_list>>

-----------------------------------------------------------------------------
(* main, lines 164-174.                                                    *)
LoadDataSource ==
    /\ pc = "load_source"
    /\ \/ /\ pc' = "load_trainval"
          /\ UNCHANGED <<exc, reported, ret>>
       \/ \E e \in LoadErrors : LoadRaises(e)
    /\ UNCHANGED <<args, dataset, source, anchors, name, si, gtvars, fs_log, dirs>>

LoadTrainvalData ==
    /\ pc = "load_trainval"
    /\ \/ /\ pc' = "load_test"
          /\ source' = [source EXCEPT !.train_samples = dataset.train_samples,
                                      !.valid_samples = dataset.valid_samples]
          /\ UNCHANGED <<exc, reported, ret>>
       \/ /\ \E e \in LoadErrors : LoadRaises(e)
          /\ UNCHANGED source
    /\ UNCHANGED <<args, dataset, anchors, name, si, gtvars, fs_log, dirs>>

LoadTestData ==
    /\ pc = "load_test"
    /\ \/ /\ pc' = "annotate_train"
          /\ source' = [source EXCEPT !.test_samples = dataset.test_samples]
          /\ UNCHANGED <<exc, reported, ret>>
       \/ /\ \E e \in LoadErrors : LoadRaises(e)
          /\ UNCHANGED source
    /\ UNCHANGED <<args, dataset, anchors, name, si, gtvars, fs_log, dirs>>

(* annotate, lines 44-53: the images written before the call ends or fails.*)
AnnotatedImages(n, k) ==
    [i \in 1..k |-> [op |-> "image", path |-> AnnotatedFn(args.data_dir, n, SamplesOf(n)[i]),
                     data |-> SamplesOf(n)[i]]]

AnnotateCall(at, n, next) ==
    /\ pc = at
    /\ args.annotate
    /\ name' = n
    /\ dirs' = dirs \cup {AnnotatedDir(args.data_dir, n)}
    /\ \E k \in 0..Len(SamplesOf(n)) :
          /\ fs_log' = fs_log \o AnnotatedImages(n, k)
          /\ IF k = Len(SamplesOf(n))
             THEN pc' = next /\ UNCHANGED exc
             ELSE Uncaught("OSError")
    /\ UNCHANGED <<args, dataset, source, anchors, si, gtvars, ret, reported>>

(* main, lines 179-183.                                                    *)
AnnotateTrain == AnnotateCall("annotate_train", "train", "annotate_valid")

AnnotateValid == AnnotateCall("annotate_valid", "valid", "annotate_test")

AnnotateTest == AnnotateCall("annotate_test", "test ", "gt")

AnnotateSkip ==
    /\ pc = "annotate_train"
    /\ ~args.annotate
    /\ pc' = "gt"
    /\ UNCHANGED <<args, dataset, source, anchors, name, si, gtvars, fs_log, dirs,
                   ret, reported, exc>>

(* main, lines 188-193: the call of compute_gt for 'train'.                *)
GtTrain ==
    /\ pc = "gt"
    /\ args.compute_gt
    /\ name' = "train"
    /\ pc' = "gt_begin"
    /\ UNCHANGED <<args, dataset, source, anchors, si, gtvars, fs_log, dirs,
                   ret, reported, exc>>

GtSkip ==
    /\ pc = "gt"
    /\ ~args.compute_gt
    /\ pc' = "return"
    /\ UNCHANGED <<args, dataset, source, anchors, name, si, gtvars, fs_log, dirs,
                   ret, reported, exc>>

(* compute_gt, lines 70-83.                                                *)
GtBegin ==
    /\ pc = "gt_begin"
    /\ dirs' = dirs \cup {ResultDir(args.data_dir, name)}
    /\ sample_list' = <<>>
    /\ si' = 1
    /\ pc' = "loop"
    /\ UNCHANGED <<args, dataset, source, anchors, name, vec, overlaps, matches,
                   bi, oi, last_call, fs_log, ret, reported, exc>>

(* compute_gt, lines 84-85.                                                *)
CreateVec ==
    /\ pc = "loop"
    /\ si <= Len(Samples)
    /\ vec' = ZeroVec(anchors, NumClasses)
    /\ last_call' = NoCall
    /\ pc' = "overlaps"
    /\ UNCHANGED <<args, dataset, source, anchors, name, si, overlaps, matches,
                   bi, oi, sample_list, fs_log, dirs, ret, reported, exc>>

(* compute_gt, lines 91-94.                                                *)
ComputeOverlaps ==
    /\ pc = "overlaps"
    /\ \/ /\ overlaps' = [b \in 1..Len(Cur.boxes) |->
                            compute_overlap(Cur.boxes[b], anchors, Threshold)]
          /\ pc' = "init"
          /\ UNCHANGED exc
       \/ /\ Uncaught("ValueError")
          /\ UNCHANGED overlaps
    /\ UNCHANGED <<args, dataset, source, anchors, name, si, vec, matches,
                   bi, oi, last_call, sample_list, fs_log, dirs, ret, reported>>

(* compute_gt, lines 100-107.                                              *)
InitVec ==
    /\ pc = "init"
    /\ vec' = InitBackground(vec, NumClasses)
    /\ matches' = FreshMatches(matches)
    /\ bi' = 1
    /\ oi' = 1
    /\ pc' = "good"
    /\ UNCHANGED <<args, dataset, source, anchors, name, si, overlaps,
                   last_call, sample_list, fs_log, dirs, ret, reported, exc>>

(* compute_gt, lines 108-111: one process_overlap call of the first pass.  *)
GoodOverlap ==
    /\ pc = "good"
    /\ bi <= Len(Cur.boxes)
    /\ oi <= Len(overlaps[bi].good)
    /\ LET overlap == overlaps[bi].good[oi]
           r == process_overlap(overlap, Cur.boxes[bi], anchors[overlap.idx],
                                matches, NumClasses, vec)
       IN  /\ matches' = r.matches
           /\ vec' = r.vec
           /\ last_call' = CallRecord(overlap)
    /\ oi' = oi + 1
    /\ UNCHANGED <<pc, args, dataset, source, anchors, name, si, overlaps, bi,
                   sample_list, fs_log, dirs, ret, reported, exc>>

(* compute_gt, lines 107-108: the `good` list of a box is exhausted.       *)
GoodNextBox ==
    /\ pc = "good"
    /\ bi <= Len(Cur.boxes)
    /\ oi > Len(overlaps[bi].good)
    /\ bi' = bi + 1
    /\ oi' = 1
    /\ UNCHANGED <<pc, args, dataset, source, anchors, name, si, vec, overlaps,
                   matches, last_call, sample_list, fs_log, dirs, ret, reported, exc>>

(* compute_gt, lines 113-114.                                              *)
BestBegin ==
    /\ pc = "good"
    /\ bi > Len(Cur.boxes)
    /\ matches' = FreshMatches(matches)
    /\ bi' = 1
    /\ pc' = "best"
    /\ UNCHANGED <<args, dataset, source, anchors, name, si, vec, overlaps, oi,
                   last_call, sample_list, fs_log, dirs, ret, reported, exc>>

(* compute_gt, lines 114-117: one process_overlap call of the second pass. *)
BestOverlap ==
    /\ pc = "best"
    /\ bi <= Len(Cur.boxes)
    /\ LET overlap == overlaps[bi].best
           r == process_overlap(overlap, Cur.boxes[bi], anchors[overlap.idx],
                                matches, NumClasses, vec)
       IN  /\ matches' = r.matches
           /\ vec' = r.vec
           /\ last_call' = CallRecord(overlap)
    /\ bi' = bi + 1
    /\ UNCHANGED <<pc, args, dataset, source, anchors, name, si, overlaps, oi,
                   sample_list, fs_log, dirs, ret, reported, exc>>

(* Faulty variant of line 124: the entry is put in front.                 *)
PrependSample(list, sample, gt_fn) == <<<<sample, gt_fn>>>> \o list

(* Line 124: sample_list.append((sample, gt_fn)).                          *)
AppendSample(list, sample, gt_fn) == Append(list, <<sample, gt_fn>>)

(* Faulty variant of lines 122-124: a failed np.save is swallowed and the *)
(* loop goes on.                                                           *)
SaveResultSwallow ==
    /\ pc = "best"
    /\ bi > Len(Cur.boxes)
    /\ LET gt_fn == GtFn(args.data_dir, name, Cur)
       IN  \/ /\ fs_log' = Append(fs_log, [op |-> "npy", path |-> gt_fn, data |-> vec])
              /\ sample_list' = AppendSample(sample_list, Cur, gt_fn)
           \/ UNCHANGED <<fs_log, sample_list>>
    /\ pc' = "saved"
    /\ UNCHANGED <<args, dataset, source, anchors, name, si, vec, overlaps, matches,
                   bi, oi, last_call, dirs, ret, reported, exc>>

(* compute_gt, lines 122-124.                                              *)
SaveResult ==
    /\ pc = "best"
    /\ bi > Len(Cur.boxes)
    /\ LET gt_fn == GtFn(args.data_dir, name, Cur)
       IN  \/ /\ fs_log' = Append(fs_log, [op |-> "npy", path |-> gt_fn, data |-> vec])
              /\ sample_list' = AppendSample(sample_list, Cur, gt_fn)
              /\ pc' = "saved"
              /\ UNCHANGED exc
           \/ /\ Uncaught("OSError")
              /\ UNCHANGED <<fs_log, sample_list>>
    /\ UNCHANGED <<args, dataset, source, anchors, name, si, vec, overlaps, matches,
                   bi, oi, last_call, dirs, ret, reported>>

(* compute_gt, line 84: on to the next sample.                             *)
NextSample ==
    /\ pc = "saved"
    /\ si' = si + 1
    /\ pc' = "loop"
    /\ UNCHANGED <<args, dataset, source, anchors, name, vec, overlaps, matches,
                   bi, oi, last_call, sample_list, fs_log, dirs, ret, reported, exc>>

(* compute_gt, lines 129-130, and the return to main (lines 194, 200).     *)
DumpSampleList ==
    /\ pc = "loop"
    /\ si > Len(Samples)
    /\ \/ /\ fs_log' = Append(fs_log, [op |-> "manifest",
                                       path |-> SampleListFn(args.data_dir, name),
                                       data |-> sample_list])
          /\ IF name = "train"
             THEN name' = "valid" /\ pc' = "gt_begin"
             ELSE name' = name /\ pc' = "write_data"
          /\ vec' = EmptyDict
          /\ overlaps' = <<>>
          /\ matches' = EmptyDict
          /\ bi' = 0
          /\ oi' = 0
          /\ last_call' = NoCall
          /\ sample_list' = <<>>
          /\ si' = 0
          /\ UNCHANGED exc
       \/ /\ Uncaught("OSError")
          /\ UNCHANGED <<fs_log, name, gtvars, si>>
    /\ UNCHANGED <<args, dataset, source, anchors, dirs, ret, reported>>

(* main, lines 200-208.                                                    *)
WriteTrainingData ==
    /\ pc = "write_data"
    /\ \/ /\ fs_log' = Append(fs_log, [op |-> "metadata",
                                       path |-> TrainingDataFn(args.data_dir),
                                       data |-> [preset |-> args.preset,
                                                 num_classes |-> NumClasses]])
          /\ pc' = "return"
          /\ UNCHANGED exc
       \/ /\ Uncaught("OSError")
          /\ UNCHANGED fs_log
    /\ UNCHANGED <<args, dataset, source, anchors, name, si, gtvars, dirs, ret, reported>>

(* main, line 210.                                                         *)
Return0 ==
    /\ pc = "return"
    /\ ret' = <<0>>
    /\ pc' = "exit"
    /\ UNCHANGED <<args, dataset, source, anchors, name, si, gtvars, fs_log, dirs,
                   reported, exc>>

Next ==
    \/ LoadDataSource
    \/ LoadTrainvalData
    \/ LoadTestData
    \/ AnnotateTrain
    \/ AnnotateValid
    \/ AnnotateTest
    \/ AnnotateSkip
    \/ GtTrain
    \/ GtSkip
    \/ GtBegin
    \/ CreateVec
    \/ ComputeOverlaps
    \/ InitVec
    \/ GoodOverlap
    \/ GoodNextBox
    \/ BestBegin
    \/ BestOverlap
    \/ SaveResult
    \/ NextSample
    \/ DumpSampleList
    \/ WriteTrainingData
    \/ Return0

Spec == Init /\ [][Next]_vars

-----------------------------------------------------------------------------
(* compute_gt's loop body (lines 85-117) as a function of the sample: the  *)
(* vector np.save receives.                                                *)
RECURSIVE GoodCalls(_, _, _)
GoodCalls(boxes, ovs, b) ==
    IF b > Len(boxes) THEN <<>>
    ELSE [i \in 1..Len(ovs[b].good) |-> [overlap |-> ovs[b].good[i], box |-> boxes[b]]]
         \o GoodCalls(boxes, ovs, b + 1)

BestCalls(boxes, ovs) ==
    [b \in 1..Len(boxes) |-> [overlap |-> ovs[b].best, box |-> boxes[b]]]

RECURSIVE Fold(_, _, _, _)
Fold(calls, i, anchs, st) ==
    IF i > Len(calls) THEN st
    ELSE Fold(calls, i + 1, anchs,
              process_overlap(calls[i].overlap, calls[i].box, anchs[calls[i].overlap.idx],
                              st.matches, NumClasses, st.vec))

Encode(sample, anchs) ==
    LET ovs == [b \in 1..Len(sample.boxes) |->
                  compute_overlap(sample.boxes[b], anchs, Threshold)]
        v0  == InitBackground(ZeroVec(anchs, NumClasses), NumClasses)
        p1  == Fold(GoodCalls(sample.boxes, ovs, 1), 1, anchs,
                    [matches |-> EmptyDict, vec |-> v0])
        p2  == Fold(BestCalls(sample.boxes, ovs), 1, anchs,
                    [matches |-> EmptyDict, vec |-> p1.vec])
    IN  p2.vec

-----------------------------------------------------------------------------
(* Vocabulary of the properties.                                           *)

(* The one-hot segment of a row: one column of 0..num_classes is 1, the    *)
(* others are 0.                                                           *)
OneHotRow(row) ==
    /\ \A c \in 0..NumClasses : row[c] \in {0, 1}
    /\ Cardinality({c \in 0..NumClasses : row[c] = 1}) = 1

OneHotVec(v) == \A a \in DOMAIN v : OneHotRow(v[a])

BackgroundRow == [c \in 0..(NumClasses + 4) |-> IF c = NumClasses THEN 1 ELSE 0]

(* The row of an anchor that carries a box: the box's class alone, and the *)
(* box's offsets against that anchor.                                      *)
BoxRow(box, a) ==
    [c \in 0..(NumClasses + 4) |->
        IF c <= NumClasses THEN (IF c = box.labelid THEN 1 ELSE 0)
        ELSE compute_location(box, anchors[a])[c - NumClasses]]

InBody == pc \in {"overlaps", "init", "good", "best", "saved"}

Encoded == pc = "saved"

BoxIds == 1..Len(Cur.boxes)

GoodIdxs(b) == {overlaps[b].good[i].idx : i \in 1..Len(overlaps[b].good)}

GoodScore(b, a) == Cur.boxes[b].iou[a]

(* The boxes with a good overlap at anchor a, and the boxes whose best     *)
(* anchor is a.                                                            *)
GoodAt(a) == {b \in BoxIds : a \in GoodIdxs(b)}

BestAt(a) == {b \in BoxIds : overlaps[b].best.idx = a}

(* The highest score, and among equal scores the earliest box.             *)
GoodWinner(a) ==
    CHOOSE b \in GoodAt(a) : \A o \in GoodAt(a) :
        \/ GoodScore(o, a) < GoodScore(b, a)
        \/ GoodScore(o, a) = GoodScore(b, a) /\ b <= o

BestWinner(a) ==
    CHOOSE b \in BestAt(a) : \A o \in BestAt(a) :
        \/ overlaps[o].best.score < overlaps[b].best.score
        \/ overlaps[o].best.score = overlaps[b].best.score /\ b <= o

HasClass(a, b) ==
    /\ vec[a][Cur.boxes[b].labelid] = 1
    /\ \A c \in 0..NumClasses : c # Cur.boxes[b].labelid => vec[a][c] = 0

NpyEntries == {i \in DOMAIN fs_log : fs_log[i].op = "npy"}

-----------------------------------------------------------------------------
(* C1 as stated: in every state from the creation of the vector (line 85)  *)
(* to the saved vector, every row has exactly one of the num_classes+1     *)
(* one-hot columns equal to 1 and the others 0.                            *)
C1_OneHotFromCreation ==
    /\ InBody => OneHotVec(vec)
    /\ \A i \in NpyEntries : OneHotVec(fs_log[i].data)

(* C1, amended: from the background initialisation of lines 100-104 on,    *)
(* before and after every process_overlap call and in the saved vector,    *)
(* every row has exactly one one-hot column equal to 1 and the others 0;   *)
(* between np.zeros (line 85) and line 100 every row is all zero.          *)
C1_OneHotFromInit ==
    /\ pc \in {"good", "best", "saved"} => OneHotVec(vec)
    /\ pc \in {"overlaps", "init"} =>
          \A a \in DOMAIN vec : \A c \in 0..NumClasses : vec[a][c] = 0
    /\ \A i \in NpyEntries : OneHotVec(fs_log[i].data)

(* An anchor was first given to one box and then overwritten by a box of   *)
(* another class, and the vector was saved.                                *)
C1_Witness ==
    /\ Encoded
    /\ last_call.wrote /\ last_call.known
    /\ \E a \in DOMAIN vec : vec[a][NumClasses] = 0
    /\ \E b1, b2 \in BoxIds : Cur.boxes[b1].labelid # Cur.boxes[b2].labelid
    /\ fs_log[Len(fs_log)].data = vec

(* C2 as stated: after compute_gt has encoded an image, the best anchor of *)
(* every box carries that box's class, so that every box has at least one  *)
(* anchor.                                                                 *)
C2_EveryBoxAssigned ==
    Encoded => \A b \in BoxIds : HasClass(overlaps[b].best.idx, b)

(* C2, amended: after compute_gt has encoded an image, the best anchor of  *)
(* every box carries the class and the offsets of the box that wins that   *)
(* anchor in the best-matches pass: among the boxes with that best anchor, *)
(* the one with the highest best score, the earliest on a tie.  A box not  *)
(* out-scored in this way has its best anchor, also when its good list is  *)
(* empty; a box that is, and whose good list is empty, may have no anchor. *)
C2_BestAnchorToWinner ==
    Encoded => \A b \in BoxIds :
        LET a == overlaps[b].best.idx
        IN  /\ vec[a] = BoxRow(Cur.boxes[BestWinner(a)], a)
            /\ BestWinner(a) = b => HasClass(a, b)
            /\ (\A o \in BestAt(a) \ {b} :
                   \/ overlaps[o].best.score < overlaps[b].best.score
                   \/ overlaps[o].best.score = overlaps[b].best.score /\ b < o)
               => BestWinner(a) = b

(* A box with an empty good list shares its best anchor with a box of      *)
(* another class, wins it and carries it in the saved vector.              *)
C2_Witness ==
    /\ Encoded
    /\ \E b, o \in BoxIds :
          /\ b # o
          /\ overlaps[b].good = <<>>
          /\ overlaps[o].best.idx = overlaps[b].best.idx
          /\ Cur.boxes[o].labelid # Cur.boxes[b].labelid
          /\ BestWinner(overlaps[b].best.idx) = b
          /\ HasClass(overlaps[b].best.idx, b)

(* The process_overlap call a step makes, if it makes one.                 *)
IsGoodCall == pc = "good" /\ pc' = "good" /\ bi' = bi /\ oi' = oi + 1

IsBestCall == pc = "best" /\ pc' = "best" /\ bi' = bi + 1

CalledOverlap == IF pc = "good" THEN overlaps[bi].good[oi] ELSE overlaps[bi].best

(* C3: within one pass, a process_overlap call for an anchor recorded with *)
(* score S leaves the Match Table and the vector unchanged when its score  *)
(* is below or equal to S; a strictly greater score overwrites the entry   *)
(* and the row; no recorded score ever decreases during a pass.            *)
C3_Monotonic ==
    [][(IsGoodCall \/ IsBestCall) =>
          LET ov == CalledOverlap
          IN  /\ (ov.idx \in DOMAIN matches /\ ov.score <= matches[ov.idx])
                    => (matches' = matches /\ vec' = vec)
              /\ (ov.idx \in DOMAIN matches /\ ov.score > matches[ov.idx])
                    => /\ matches'[ov.idx] = ov.score
                       /\ vec'[ov.idx] = BoxRow(Cur.boxes[bi], ov.idx)
              /\ \A a \in DOMAIN matches :
                    a \in DOMAIN matches' /\ matches'[a] >= matches[a]]_vars

(* A call with a score equal to the recorded one has just returned early.  *)
C3_Witness ==
    /\ pc \in {"good", "best"}
    /\ last_call.pass = pc
    /\ last_call.known
    /\ ~last_call.wrote
    /\ last_call.score = last_call.prior
    /\ vec[last_call.idx] # BoxRow(Cur.boxes[last_call.box], last_call.idx)

(* C4 as stated: when two boxes of different classes both have a good      *)
(* overlap with an anchor, the encoded vector labels the anchor with the   *)
(* class of the box with the higher good score, the first box on a tie.    *)
C4_HigherGoodScoreWins ==
    Encoded => \A a \in DOMAIN anchors : \A b1, b2 \in GoodAt(a) :
        (b1 < b2 /\ Cur.boxes[b1].labelid # Cur.boxes[b2].labelid)
        => HasClass(a, IF GoodScore(b2, a) > GoodScore(b1, a) THEN b2 ELSE b1)

(* C4, amended: when boxes have a good overlap with the same anchor, at    *)
(* the end of the good-matches pass the anchor carries the box with the    *)
(* highest good score at it, the earliest on a tie.  In the encoded vector *)
(* this still holds for an anchor that is no box's best anchor; an anchor  *)
(* that is some box's best anchor carries the winner of the best-matches   *)
(* pass instead, whatever the good scores were.                            *)
C4_GoodWinnerUnlessBest ==
    /\ (pc = "good" /\ bi > Len(Cur.boxes)) =>
          \A a \in DOMAIN anchors :
              GoodAt(a) # {} =>
                  /\ vec[a] = BoxRow(Cur.boxes[GoodWinner(a)], a)
                  /\ HasClass(a, GoodWinner(a))
    /\ Encoded =>
          \A a \in DOMAIN anchors :
              /\ (GoodAt(a) # {} /\ BestAt(a) = {}) =>
                    /\ vec[a] = BoxRow(Cur.boxes[GoodWinner(a)], a)
                    /\ HasClass(a, GoodWinner(a))
              /\ BestAt(a) # {} =>
                    /\ vec[a] = BoxRow(Cur.boxes[BestWinner(a)], a)
                    /\ HasClass(a, BestWinner(a))

(* Two boxes of different classes are good at an anchor that is nobody's   *)
(* best anchor; the later box has the higher score and holds the anchor.   *)
C4_Witness ==
    /\ Encoded
    /\ \E a \in DOMAIN anchors : \E b1, b2 \in GoodAt(a) :
          /\ b1 < b2
          /\ BestAt(a) = {}
          /\ Cur.boxes[b1].labelid # Cur.boxes[b2].labelid
          /\ GoodScore(b2, a) > GoodScore(b1, a)
          /\ HasClass(a, b2)

(* The highest best score among the boxes before position k whose best     *)
(* anchor is a.                                                            *)
BestSoFar(a, k) ==
    CHOOSE x \in {overlaps[b].best.score : b \in {o \in 1..(k - 1) : overlaps[o].best.idx = a}} :
        \A b \in {o \in 1..(k - 1) : overlaps[o].best.idx = a} : overlaps[b].best.score <= x

(* C5: the Match Table of the best-matches pass starts empty and holds     *)
(* only what that pass recorded, so no score recorded by the good-matches  *)
(* pass blocks a best assignment: a best call returns early only when an   *)
(* earlier box of the same pass holds the anchor with an equal or higher   *)
(* best score.                                                             *)
C5_IndependentPasses ==
    pc = "best" =>
        /\ bi = 1 => matches = EmptyDict
        /\ DOMAIN matches = {overlaps[b].best.idx : b \in 1..(bi - 1)}
        /\ \A a \in DOMAIN matches : matches[a] = BestSoFar(a, bi)
        /\ (last_call.pass = "best" /\ ~last_call.wrote) =>
              \E b \in 1..(last_call.box - 1) :
                  /\ overlaps[b].best.idx = last_call.idx
                  /\ overlaps[b].best.score >= last_call.score
        /\ (last_call.pass = "best" /\ last_call.wrote) =>
              vec[last_call.idx] = BoxRow(Cur.boxes[last_call.box], last_call.idx)

(* A best call has overwritten the row of an anchor that the good-matches  *)
(* pass had given to another box with a strictly higher score.             *)
C5_Witness ==
    /\ pc = "best"
    /\ last_call.pass = "best"
    /\ last_call.wrote
    /\ GoodAt(last_call.idx) # {}
    /\ GoodScore(GoodWinner(last_call.idx), last_call.idx) > last_call.score
    /\ GoodWinner(last_call.idx) # last_call.box
    /\ vec[last_call.idx] = BoxRow(Cur.boxes[last_call.box], last_call.idx)

(* The scenario of C6: four anchors and one box whose IoU is 0.6 with      *)
(* anchor 1, 1.0 with anchor 2, 0.3 with anchor 3 and below 0.5 with       *)
(* anchor 0, so that good = [(1, 0.6), (2, 1.0)] and best = (2, 1.0).      *)
IsScenario ==
    /\ DOMAIN anchors = 0..3
    /\ Len(Cur.boxes) = 1
    /\ Cur.boxes[1].iou[0] < Threshold
    /\ Cur.boxes[1].iou[1] = 6
    /\ Cur.boxes[1].iou[2] = 10
    /\ Cur.boxes[1].iou[3] = 3
    /\ overlaps[1].good = <<[idx |-> 1, score |-> 6], [idx |-> 2, score |-> 10]>>
    /\ overlaps[1].best = [idx |-> 2, score |-> 10]

(* C6: in the scenario the saved vector gives anchors 1 and 2 the box's    *)
(* class (background cleared) and its offsets against that anchor, and     *)
(* leaves anchors 0 and 3 background with zero offsets.                    *)
C6_Scenario ==
    (Encoded /\ IsScenario) =>
        /\ vec[1] = BoxRow(Cur.boxes[1], 1)
        /\ vec[2] = BoxRow(Cur.boxes[1], 2)
        /\ vec[1][NumClasses] = 0 /\ vec[2][NumClasses] = 0
        /\ vec[0] = BackgroundRow
        /\ vec[3] = BackgroundRow
        /\ fs_log[Len(fs_log)] = [op |-> "npy", path |-> GtFn(args.data_dir, name, Cur),
                                  data |-> vec]

(* The scenario's image has been encoded and saved.                        *)
C6_Witness ==
    /\ Encoded
    /\ IsScenario
    /\ vec[2][Cur.boxes[1].labelid] = 1

(* C7: from the initialisation on and in the saved vector, an anchor that  *)
(* is in no box's good list and is no box's best anchor is background with *)
(* zero offsets; so a box with an empty good list changes at most its best *)
(* anchor, and an image without boxes yields the all-background vector.    *)
C7_UntouchedStayBackground ==
    /\ pc \in {"good", "best", "saved"} =>
          \A a \in DOMAIN anchors :
              (GoodAt(a) = {} /\ BestAt(a) = {}) => vec[a] = BackgroundRow
    /\ (Encoded /\ Cur.boxes = <<>>) =>
          /\ \A a \in DOMAIN anchors : vec[a] = BackgroundRow
          /\ fs_log[Len(fs_log)].data = vec
    /\ (Encoded /\ Len(Cur.boxes) = 1 /\ overlaps[1].good = <<>>) =>
          \A a \in DOMAIN anchors :
              vec[a] = IF a = overlaps[1].best.idx THEN BoxRow(Cur.boxes[1], a)
                       ELSE BackgroundRow

(* A box with an empty good list holds its best anchor, and another anchor *)
(* that no box touched is still background.                                *)
C7_Witness ==
    /\ Encoded
    /\ \E b \in BoxIds :
          /\ overlaps[b].good = <<>>
          /\ vec[overlaps[b].best.idx] = BoxRow(Cur.boxes[b], overlaps[b].best.idx)
    /\ \E a \in DOMAIN anchors :
          GoodAt(a) = {} /\ BestAt(a) = {} /\ vec[a] = BackgroundRow

-----------------------------------------------------------------------------
(* Vocabulary of the properties on the files written.                      *)

IsGtEntry(e) == e.op \in {"npy", "manifest", "metadata"}

(* What compute_gt and main wrote, in order: (kind, path) of each write.   *)
GtLog == SelectSeq(fs_log, IsGtEntry)

ShapeOf(log) == [i \in DOMAIN log |-> <<log[i].op, log[i].path>>]

(* The path of the vector of a sample: result_dir, basename, '.npy'.       *)
VectorPath(n, sample) ==
    <<args.data_dir, "ground_truth", n, sample.filename[Len(sample.filename)], ".npy">>

(* The writes of a whole split: one vector per sample, in input order,     *)
(* then the manifest.                                                      *)
SplitShape(n) ==
    [i \in 1..Len(SamplesOf(n)) |-> <<"npy", VectorPath(n, SamplesOf(n)[i])>>]
    \o << <<"manifest", <<args.data_dir, n, "-samples.pkl">>>> >>

FullShape ==
    SplitShape("train") \o SplitShape("valid")
    \o << <<"metadata", <<args.data_dir, "training-data.pkl">>>> >>

IsPrefix(s, t) == Len(s) <= Len(t) /\ \A i \in 1..Len(s) : s[i] = t[i]

(* The vectors saved for split n before position k of the log.             *)
VectorsBefore(n, k) ==
    LET IsVectorOf(e) == e.op = "npy" /\ e.path[3] = n
    IN  SelectSeq(SubSeq(fs_log, 1, k - 1), IsVectorOf)

(* C8: a persisted manifest has one entry per input sample of its split,   *)
(* in input order; entry i pairs sample i with result_dir + basename +     *)
(* '.npy', the path to which the i-th vector of the split, the encoding of *)
(* sample i, was saved.                                                    *)
C8_Manifest ==
    \A k \in DOMAIN fs_log :
        fs_log[k].op = "manifest" =>
            LET n     == fs_log[k].path[2]
                ss    == SamplesOf(n)
                m     == fs_log[k].data
                saved == VectorsBefore(n, k)
            IN  /\ Len(m) = Len(ss)
                /\ Len(saved) = Len(ss)
                /\ \A i \in 1..Len(ss) :
                      /\ m[i][1] = ss[i]
                      /\ m[i][2] = VectorPath(n, ss[i])
                      /\ saved[i].path = m[i][2]
                      /\ saved[i].data = Encode(ss[i], anchors)

(* A manifest of two different samples has been written.                   *)
C8_Witness ==
    \E k \in DOMAIN fs_log :
        /\ fs_log[k].op = "manifest"
        /\ Len(fs_log[k].data) = 2
        /\ fs_log[k].data[1][1] # fs_log[k].data[2][1]
        /\ fs_log[k].data[1][2] # fs_log[k].data[2][2]

LoadFailed == exc.at \in {"load_source", "load_trainval", "load_test"}

NothingDone == fs_log = <<>> /\ dirs = {}

VectorsOf(n) == VectorsBefore(n, Len(fs_log) + 1)

HasEntry(op, n) == \E i \in DOMAIN fs_log : fs_log[i].op = op /\ n \in Range(fs_log[i].path)

(* C10: the vectors of a split are saved in input order, then its manifest *)
(* once; train comes before valid, and training-data.pkl after both        *)
(* manifests.  When encoding or saving a sample fails, the run stops       *)
(* there: the manifest of that split, everything of a later split and      *)
(* training-data.pkl are not written.                                      *)
C10_Ordering ==
    /\ IsPrefix(ShapeOf(GtLog), FullShape)
    /\ ~args.compute_gt => GtLog = <<>>
    /\ (pc = "exit" /\ ret = <<0>> /\ args.compute_gt) => ShapeOf(GtLog) = FullShape
    /\ (pc = "raised" /\ exc.at \in {"overlaps", "best"}) =>
          /\ Len(VectorsOf(name)) = si - 1
          /\ ~HasEntry("manifest", name)
          /\ name = "train" => ~HasEntry("npy", "valid") /\ ~HasEntry("manifest", "valid")
          /\ ~HasEntry("metadata", "training-data.pkl")
          /\ ret = <<>>
          /\ ~ENABLED Next

(* A run over two train samples and one valid sample has written all of    *)
(* its files and returned 0.                                               *)
C10_Witness ==
    /\ pc = "exit"
    /\ ret = <<0>>
    /\ Len(source.train_samples) = 2
    /\ Len(source.valid_samples) >= 1
    /\ ShapeOf(GtLog) = FullShape
    /\ Len(GtLog) = 6

====
